---- MODULE Spec2Model ----
(***************************************************************************)
(* Model of iw_scraper.py: the login + swatch-selection + click/read +     *)
(* image-resolution + packaging pipeline of scrape_images_with_login_sync. *)
(* Strings are sequences of one-character strings, so that normalisation,  *)
(* regular-expression rewriting and substring tests are computed as the    *)
(* code computes them.                                                     *)
(***************************************************************************)
EXTENDS Integers, Sequences, FiniteSets, TLC

VARIABLES
    pc,                \* position in scrape_images_with_login_sync
    wanted_colors,     \* the caller's raw wanted list (argument)
    wanted_norm,       \* line 253
    swatch_items,      \* line 293
    ordered_to_click,  \* lines 297-315
    k,                 \* loop counter of line 326 (1-based)
    main_url,          \* line 347
    cands,             \* line 355
    head_status,       \* the server's HEAD answer for each candidate
    get_status,        \* the server's streamed-GET answer for each candidate
    best,              \* line 356
    found_urls,        \* line 319
    downloaded_ok,     \* line 320
    downloaded_failed, \* line 321
    zf,                \* entries written to the open ZipFile (line 325)
    http_log,          \* the answer session.get gave to each download, in order
    sess,              \* the requests session and the cookies copied into it
    result,            \* what the call produced: nothing yet, a ScrapeResult, an exception
    debug              \* line 244

vars == <<pc, wanted_colors, wanted_norm, swatch_items, ordered_to_click, k,
          main_url, cands, head_status, get_status, best, found_urls,
          downloaded_ok, downloaded_failed, zf, http_log, sess, result,
          debug>>

-----------------------------------------------------------------------------
(* Bounds of the model *)

MaxWanted == 2
MaxSwatches == 2
MaxPieces == 4
MaxLabelPieces == 2

-----------------------------------------------------------------------------
(* String literals *)

ProductUrl == <<"h", "t", "t", "p", ":", "/", "/", "w", "/", "p", "/", "x">>
T_ClassicRedCR == <<"C", "l", "a", "s", "s", "i", "c", " ", "R", "e", "d", " ", "(", "C", "R", ")">>
T_ClassicRedPadded == <<" ", "C", "l", "a", "s", "s", "i", "c", " ", " ", "R", "e", "d", " ">>
T_FrenchNavy == <<"F", "r", "e", "n", "c", "h", " ", "N", "a", "v", "y">>
C_CR == <<"C", "R">>
C_FN == <<"F", "N">>
C_cr_padded == <<" ", "c", "r">>
C_X1 == <<"X", "1">>
W_ClassicRed == <<"C", "l", "a", "s", "s", "i", "c", " ", "R", "e", "d">>
W_classic_red == <<" ", "c", "l", "a", "s", "s", "i", "c", " ", " ", "R", "E", "D", " ">>
W_navy == <<"n", "a", "v", "y">>
W_blu_navy == <<"b", "l", "u", " ", "n", "a", "v", "y">>
W_blank == <<" ", " ">>
W_ZZ == <<"Z", "Z">>
W_fn == <<"f", "n">>
U_opt == <<"/", "m", "/", "o", "p", "t", "-", "4", "9", "0", "x", "7", "3", "5", "-", "r", "j", "2", "6", "5", "m", ".", "j", "p", "g">>
U_optStripped == <<"/", "m", "/", "r", "j", "2", "6", "5", "m", ".", "j", "p", "g">>
U_plain == <<"/", "m", "/", "a", ".", "p", "n", "g">>
U_thumb == <<"/", "m", "/", "1", "1", "3", "x", "4", "0", "-", "b", ".", "J", "P", "E", "G", "?", "v", "=", "1">>
S_color == <<"c", "o", "l", "o", "r", "_">>
S_file == <<"f", "i", "l", "e">>
S_opt == <<"o", "p", "t", "-">>
S_http == <<"h", "t", "t", "p", ":", "/", "/">>
S_https == <<"h", "t", "t", "p", "s", ":", "/", "/">>
E_jpg == <<"j", "p", "g">>
E_jpeg == <<"j", "p", "e", "g">>
E_png == <<"p", "n", "g">>
E_webp == <<"w", "e", "b", "p">>
E_gif == <<"g", "i", "f">>
UpperChars == <<"A", "B", "C", "D", "E", "F", "G", "H", "I", "J", "K", "L", "M", "N", "O", "P", "Q", "R", "S", "T", "U", "V", "W", "X", "Y", "Z">>
LowerChars == <<"a", "b", "c", "d", "e", "f", "g", "h", "i", "j", "k", "l", "m", "n", "o", "p", "q", "r", "s", "t", "u", "v", "w", "x", "y", "z">>
DigitChars == <<"0", "1", "2", "3", "4", "5", "6", "7", "8", "9">>

-----------------------------------------------------------------------------
(* Character classes and elementary string operations *)

Range(s) == {s[i] : i \in DOMAIN s}

IsSpace(c) == c = " "
UpperSet == Range(UpperChars)
LowerSet == Range(LowerChars)
DigitSet == Range(DigitChars)
IsDigit(c) == c \in DigitSet
IsUpper(c) == c \in UpperSet

\* str.lower() on one character
LowerChar(c) ==
    IF IsUpper(c)
    THEN LowerChars[CHOOSE i \in DOMAIN UpperChars : UpperChars[i] = c]
    ELSE c

Lower(s) == [i \in DOMAIN s |-> LowerChar(s[i])]

\* str.strip(): drop leading and trailing whitespace
Strip(s) ==
    LET nonsp == {i \in DOMAIN s : ~IsSpace(s[i])}
    IN  IF nonsp = {} THEN <<>>
        ELSE LET lo == CHOOSE i \in nonsp : \A j \in nonsp : i <= j
                 hi == CHOOSE i \in nonsp : \A j \in nonsp : j <= i
             IN  SubSeq(s, lo, hi)

\* re.sub(r"\s+", " ", s): every maximal run of whitespace becomes one space
RECURSIVE CollapseFrom(_, _)
CollapseFrom(s, i) ==
    IF i > Len(s) THEN <<>>
    ELSE IF IsSpace(s[i])
         THEN IF i > 1 /\ IsSpace(s[i-1])
              THEN CollapseFrom(s, i + 1)
              ELSE <<" ">> \o CollapseFrom(s, i + 1)
         ELSE <<s[i]>> \o CollapseFrom(s, i + 1)

\* `a in b` on Python strings
Contains(b, a) ==
    \E i \in 0..(Len(b) - Len(a)) : SubSeq(b, i + 1, i + Len(a)) = a

StartsWith(s, p) == Len(s) >= Len(p) /\ SubSeq(s, 1, Len(p)) = p

\* decimal digits of a natural number, f"{n}"
RECURSIVE Dec(_)
Dec(n) == IF n < 10 THEN <<DigitChars[n + 1]>>
          ELSE Dec(n \div 10) \o <<DigitChars[(n % 10) + 1]>>

\* f"{n:02d}"
Dec02(n) == IF n < 10 THEN <<"0">> \o Dec(n) ELSE Dec(n)

-----------------------------------------------------------------------------
(* More literals *)

S_HTTP == <<"H", "T", "T", "P", " ">>
S_HTTP404 == <<"H", "T", "T", "P", " ", "4", "0", "4">>
S_TimeoutError == <<"T", "i", "m", "e", "o", "u", "t", "E", "r", "r", "o", "r">>
S_ConnectionError == <<"C", "o", "n", "n", "e", "c", "t", "i", "o", "n", "E", "r", "r", "o", "r">>
S_click_failed == <<" ", "(", "c", "l", "i", "c", "k", " ", "f", "a", "i", "l", "e", "d", ":", " ">>
S_main_image_not_found == <<" ", "(", "m", "a", "i", "n", " ", "i", "m", "a", "g", "e", " ", "n", "o", "t", " ", "f", "o", "u", "n", "d", ")">>

\* Python's None where bytes are expected (line 114)
None == <<"None">>

\* an exception raised by a requests call stands in the place of a status
NetworkError == 0

-----------------------------------------------------------------------------
(* Helpers of iw_scraper.py *)

\* _norm: strip, lower-case, collapse whitespace runs
_norm(s) == CollapseFrom(Lower(Strip(s)), 1)

\* \w of a Python 3 str pattern: letters (also non-ASCII ones), digits, "_"
NonAsciiLetters == {"é", "ü"}
IsWordChar(c) ==
    \/ IsUpper(c)
    \/ c \in LowerSet
    \/ IsDigit(c)
    \/ c = "_"
    \/ c \in NonAsciiLetters

\* the characters [\w\-.] that _clean_filename keeps
IsNameChar(c) == IsWordChar(c) \/ c = "-" \/ c = "."

\* re.sub(r"[^\w\-.]+", "_", s): a maximal run of other characters gives one "_"
\* (from position i on; a character is kept, starts a run, or continues one)
CleanFrom(s, i) ==
    LET out == [j \in DOMAIN s |->
                   IF IsNameChar(s[j]) THEN s[j]
                   ELSE IF j > 1 /\ ~IsNameChar(s[j-1]) THEN "" ELSE "_"]
    IN  SelectSeq(SubSeq(out, i, Len(s)), LAMBDA c : c # "")

MaxNameLen == 180

_clean_filename(name) ==
    LET cleaned == CleanFrom(Strip(name), 1)
    IN  IF cleaned = <<>> THEN S_file
        ELSE SubSeq(cleaned, 1, IF Len(cleaned) < MaxNameLen THEN Len(cleaned) ELSE MaxNameLen)

\* end (exclusive) of the maximal digit run starting at i: \d+ is greedy and
\* the next pattern character is never a digit
DigitsEnd(s, i) ==
    CHOOSE j \in i..(Len(s) + 1) :
        /\ \A m \in i..(j - 1) : IsDigit(s[m])
        /\ (j = Len(s) + 1 \/ ~IsDigit(s[j]))

\* position of the closing "-" of \d+x\d+- matched from position i, or 0
SizeEnd(s, i) ==
    LET d1 == DigitsEnd(s, i)
    IN  IF i > Len(s) \/ d1 = i \/ d1 > Len(s) \/ s[d1] # "x" THEN 0
        ELSE LET d2 == DigitsEnd(s, d1 + 1)
             IN  IF d2 = d1 + 1 \/ d2 > Len(s) \/ s[d2] # "-" THEN 0 ELSE d2

\* last position of a match of /opt-\d+x\d+- starting at i, or 0
OptMatchEnd(s, i) ==
    IF s[i] = "/" /\ i + 4 <= Len(s) /\ SubSeq(s, i + 1, i + 4) = S_opt
    THEN SizeEnd(s, i + 5)
    ELSE 0

\* last position of a match of /\d+x\d+- starting at i, or 0
SizeMatchEnd(s, i) == IF s[i] = "/" THEN SizeEnd(s, i + 1) ELSE 0

\* re.sub(r"/opt-\d+x\d+-", "/", s), scanning from position i
RECURSIVE SubOptFrom(_, _)
SubOptFrom(s, i) ==
    IF i > Len(s) THEN <<>>
    ELSE IF OptMatchEnd(s, i) > 0
         THEN <<"/">> \o SubOptFrom(s, OptMatchEnd(s, i) + 1)
         ELSE <<s[i]>> \o SubOptFrom(s, i + 1)

\* re.sub(r"/\d+x\d+-", "/", s), scanning from position i
RECURSIVE SubSizeFrom(_, _)
SubSizeFrom(s, i) ==
    IF i > Len(s) THEN <<>>
    ELSE IF SizeMatchEnd(s, i) > 0
         THEN <<"/">> \o SubSizeFrom(s, SizeMatchEnd(s, i) + 1)
         ELSE <<s[i]>> \o SubSizeFrom(s, i + 1)

\* the order-preserving dedup loop of lines 77-83
RECURSIVE Dedup(_)
Dedup(q) ==
    IF q = <<>> THEN <<>>
    ELSE LET front == Dedup(SubSeq(q, 1, Len(q) - 1))
             last == q[Len(q)]
         IN  IF last \in Range(front) THEN front ELSE Append(front, last)

\* a plausible slip: the rewritten forms are appended, not inserted in front
BestCandidates_appended(img_url) ==
    IF img_url = <<>> THEN <<>>
    ELSE LET c2 == SubOptFrom(img_url, 1)
             c3 == SubSizeFrom(img_url, 1)
             a == IF c2 # img_url THEN <<img_url, c2>> ELSE <<img_url>>
             b == IF c3 \notin Range(a) THEN Append(a, c3) ELSE a
         IN  Dedup(b)

_best_image_url_candidates(img_url) ==
    IF img_url = <<>> THEN <<>>
    ELSE LET c2 == SubOptFrom(img_url, 1)
             c3 == SubSizeFrom(img_url, 1)
             a == IF c2 # img_url THEN <<c2, img_url>> ELSE <<img_url>>
             b == IF c3 \notin Range(a) THEN <<c3>> \o a ELSE a
         IN  Dedup(b)

\* index of the first candidate whose answer is 200, or 0
FirstOk(st) ==
    IF \E i \in DOMAIN st : st[i] = 200
    THEN CHOOSE i \in DOMAIN st : st[i] = 200 /\ \A j \in 1..(i - 1) : st[j] # 200
    ELSE 0

\* a plausible slip: nothing is returned when every probe failed
PickBest_noFallback(candidates, hs, gs) ==
    IF FirstOk(hs) > 0 THEN candidates[FirstOk(hs)]
    ELSE IF FirstOk(gs) > 0 THEN candidates[FirstOk(gs)]
    ELSE <<>>

\* _pick_best_existing_url: hs[i] and gs[i] are the answers the server gives
\* to HEAD and to a streamed GET of candidates[i] (NetworkError: the call
\* raised, which the except clause swallows)
_pick_best_existing_url(candidates, hs, gs) ==
    IF FirstOk(hs) > 0 THEN candidates[FirstOk(hs)]
    ELSE IF FirstOk(gs) > 0 THEN candidates[FirstOk(gs)]
    ELSE IF candidates # <<>> THEN candidates[Len(candidates)] ELSE <<>>

\* a plausible slip: only server errors count as failures
DownloadBytes_only5xx(resp) ==
    IF resp.status = NetworkError THEN <<None, resp.error>>
    ELSE IF resp.status >= 500 \/ resp.content = <<>>
         THEN <<None, S_HTTP \o Dec(resp.status)>>
         ELSE <<resp.content, <<>>>>

\* _download_bytes: resp is the server's answer to session.get(url)
_download_bytes(resp) ==
    IF resp.status = NetworkError THEN <<None, resp.error>>
    ELSE IF resp.status # 200 \/ resp.content = <<>>
         THEN <<None, S_HTTP \o Dec(resp.status)>>
         ELSE <<resp.content, <<>>>>

\* urllib.parse.urljoin(base, src) for an absolute URL, an absolute path and
\* a relative path
LastSlash(s) == CHOOSE i \in DOMAIN s : s[i] = "/" /\ \A j \in (i + 1)..Len(s) : s[j] # "/"
SchemeLen(s) == IF StartsWith(s, S_https) THEN Len(S_https)
                ELSE IF StartsWith(s, S_http) THEN Len(S_http) ELSE 0
OriginEnd(s) ==
    LET from == SchemeLen(s) + 1
    IN  IF \E i \in from..Len(s) : s[i] = "/"
        THEN (CHOOSE i \in from..Len(s) : s[i] = "/" /\ \A j \in from..(i - 1) : s[j] # "/") - 1
        ELSE Len(s)
urljoin(base, src) ==
    IF SchemeLen(src) > 0 THEN src
    ELSE IF src[1] = "/" THEN SubSeq(base, 1, OriginEnd(base)) \o src
    ELSE SubSeq(base, 1, LastSlash(base)) \o src

\* the extension of lines 365-368:
\* re.search(r"\.(jpg|jpeg|png|webp|gif)(\?|$)", best, re.I)
ExtAlternatives == <<E_jpg, E_jpeg, E_png, E_webp, E_gif>>
ExtAltAt(s, i, a) ==
    /\ s[i] = "."
    /\ i + Len(a) <= Len(s)
    /\ Lower(SubSeq(s, i + 1, i + Len(a))) = a
    /\ (i + Len(a) = Len(s) \/ s[i + Len(a) + 1] = "?")
ExtMatches(s) ==
    {<<i, n>> \in (DOMAIN s) \X (DOMAIN ExtAlternatives) : ExtAltAt(s, i, ExtAlternatives[n])}
FileExt(url) ==
    IF ExtMatches(url) = {} THEN <<".">> \o E_jpg
    ELSE LET m == CHOOSE m \in ExtMatches(url) :
                    \A o \in ExtMatches(url) : m[1] < o[1] \/ (m[1] = o[1] /\ m[2] <= o[2])
             g == ExtAlternatives[m[2]]
         IN  <<".">> \o (IF g = E_jpeg THEN E_jpg ELSE g)

-----------------------------------------------------------------------------
(* Swatch selection, lines 194-210 and 295-315 *)

\* one item of _extract_color_swatch_map for the i-th control of the page
\* (index is 0-based; the handle is the index-th element of the locator)
SwatchItem(ctl, i) ==
    [index |-> i - 1,
     title |-> Strip(ctl.title),
     data_color |-> Strip(ctl.data_color),
     code_text |-> Strip(ctl.code_text)]

_extract_color_swatch_map(page) == [i \in DOMAIN page |-> SwatchItem(page[i], i)]

_match_swatch(item, wn) ==
    IF wn = <<>> THEN TRUE
    ELSE \E i \in DOMAIN wn :
            \/ (wn[i] # <<>> /\ (wn[i] = _norm(item.data_color) \/ wn[i] = _norm(item.code_text)))
            \/ (wn[i] # <<>> /\ Contains(_norm(item.title), wn[i]))

\* the condition of line 306
StrongMatch(w, it) ==
    \/ w = _norm(it.data_color)
    \/ w = _norm(it.code_text)
    \/ Contains(_norm(it.title), w)

\* a plausible slip: the inner loop has no break, so the last match wins
MatchFor_last(w, items) ==
    IF \E i \in DOMAIN items : StrongMatch(w, items[i])
    THEN CHOOSE i \in DOMAIN items :
            StrongMatch(w, items[i]) /\ \A j \in (i + 1)..Len(items) : ~StrongMatch(w, items[j])
    ELSE 0

\* the inner loop of lines 300-308: the position in swatch_items of the first
\* item that matches, or 0 when `match` stays None
MatchFor(w, items) ==
    IF \E i \in DOMAIN items : StrongMatch(w, items[i])
    THEN CHOOSE i \in DOMAIN items :
            StrongMatch(w, items[i]) /\ \A j \in 1..(i - 1) : ~StrongMatch(w, items[j])
    ELSE 0

\* the list comprehension of line 253
RECURSIVE NormWanted(_)
NormWanted(raw) ==
    IF raw = <<>> THEN <<>>
    ELSE LET n == _norm(Head(raw))
         IN  (IF n # <<>> THEN <<n>> ELSE <<>>) \o NormWanted(Tail(raw))

\* a plausible slip: a spec without a match ends the loop (break for continue)
RECURSIVE ClickList_stopAtMiss(_, _)
ClickList_stopAtMiss(wn, items) ==
    IF wn = <<>> THEN <<>>
    ELSE LET match == MatchFor(Head(wn), items)
         IN  IF match = 0 THEN <<>>
             ELSE <<items[match]>> \o ClickList_stopAtMiss(Tail(wn), items)

\* ordered_to_click after the loop of lines 299-312 over the specs wn
RECURSIVE ClickList(_, _)
ClickList(wn, items) ==
    IF wn = <<>> THEN <<>>
    ELSE LET match == MatchFor(Head(wn), items)
         IN  (IF match # 0 THEN <<items[match]>> ELSE <<>>) \o ClickList(Tail(wn), items)

\* the trace lines of line 312 written by the same loop
RECURSIVE MissLines(_, _)
MissLines(wn, items) ==
    IF wn = <<>> THEN <<>>
    ELSE (IF MatchFor(Head(wn), items) = 0
          THEN <<<<"WARNING: no swatch matched", Head(wn)>>>>
          ELSE <<>>) \o MissLines(Tail(wn), items)

\* lines 297-315
OrderedToClick(wn, items) ==
    IF wn # <<>> THEN ClickList(wn, items)
    ELSE SelectSeq(items, LAMBDA it : _match_swatch(it, wn))

\* line 331
LabelOf(it, n) ==
    IF it.code_text # <<>> THEN it.code_text
    ELSE IF it.data_color # <<>> THEN it.data_color
    ELSE IF it.title # <<>> THEN it.title
    ELSE S_color \o Dec(n)

\* a plausible slip: the archive is reopened in mode "w" for every image
ZipWrite_reopened(archive, filename, data) == <<[name |-> filename, data |-> data]>>

\* zf.writestr(filename, img_bytes), line 371
ZipWrite(archive, filename, data) == Append(archive, [name |-> filename, data |-> data])

\* line 370
FileName(n, label, ext) == _clean_filename(Dec02(n) \o <<"_">> \o _clean_filename(label) \o ext)

-----------------------------------------------------------------------------
(* The environment: the caller's input, the page and the image server *)

\* all sequences over S of length at most n
SeqsUpTo(S, n) == UNION {[1..m -> S] : m \in 0..n}

Ctl(t, dc, ct) == [title |-> t, data_color |-> dc, code_text |-> ct]

CtlCR == Ctl(T_ClassicRedCR, C_CR, C_CR)
CtlFN == Ctl(T_FrenchNavy, <<>>, C_FN)
CtlBare == Ctl(<<>>, <<>>, <<>>)
CtlTwoCodes == Ctl(T_ClassicRedPadded, C_cr_padded, C_X1)
CtlTitleOnly == Ctl(T_FrenchNavy, <<>>, <<>>)

\* the inputs of the full run
RunWanted == {<<>>, <<C_CR, W_ClassicRed>>, <<W_ZZ, W_fn>>, <<W_blank>>, <<W_navy, W_ZZ>>}
RunPages == {<<>>, <<CtlCR, CtlFN>>, <<CtlTwoCodes, CtlBare, CtlTitleOnly>>}

\* the inputs of the selection runs
SelSpecs == {C_CR, W_classic_red, W_navy, W_blu_navy, W_blank, W_fn}
SelControls == {CtlCR, CtlFN, CtlTwoCodes, CtlTitleOnly}
SelWanted == SeqsUpTo(SelSpecs, MaxWanted)
SelPages == SeqsUpTo(SelControls, MaxSwatches)

\* what the src attribute of the main photo can hold after a click
PhotoSrcs == {U_opt, U_plain, <<>>, <<" ">>}

\* what the server answers to a probe: a status, or the call raises
HeadAnswers == {200, 405, NetworkError}
GetAnswers == {200, 404, NetworkError}
\* the answers drawn in the full run
RunHeadAnswers == {200, 405}
RunGetAnswers == {200, NetworkError}

B_imgA == <<"A">>
B_imgB == <<"B">>
\* the Content-Type header a response declares (NoType: it declares none)
CT_png == <<"i", "m", "a", "g", "e", "/", "p", "n", "g">>
NoType == <<>>
Resp(st, ctype, body, err) ==
    [status |-> st, content_type |-> ctype, content |-> body, error |-> err]
DownloadAnswers ==
    {Resp(200, CT_png, B_imgA, <<>>), Resp(200, NoType, B_imgB, <<>>),
     Resp(200, NoType, <<>>, <<>>), Resp(404, NoType, <<"n">>, <<>>),
     Resp(NetworkError, NoType, <<>>, S_ConnectionError)}

\* the Playwright exceptions a click can raise (NoError: it raises none)
NoError == <<>>
ClickErrors == {S_TimeoutError}

-----------------------------------------------------------------------------
(* scrape_images_with_login_sync, lines 235-385 *)

InitWith(W) ==
    /\ wanted_colors \in W
    /\ wanted_norm = <<>>
    /\ swatch_items = <<>>
    /\ ordered_to_click = <<>>
    /\ k = 0
    /\ main_url = <<>>
    /\ cands = <<>>
    /\ head_status = <<>>
    /\ get_status = <<>>
    /\ best = <<>>
    /\ found_urls = <<>>
    /\ downloaded_ok = <<>>
    /\ downloaded_failed = <<>>
    /\ zf = <<>>
    /\ http_log = <<>>
    /\ sess = [created |-> FALSE, cookies |-> {}]
    /\ result = [kind |-> "none"]
    /\ debug = <<>>

Init == InitWith(RunWanted) /\ pc = "start"

loopVars == <<main_url, cands, head_status, get_status, best, found_urls,
              downloaded_ok, downloaded_failed, zf, http_log>>
selVars == <<wanted_norm, swatch_items, ordered_to_click, k>>

\* an exception leaves the function: nothing is returned
Raise(name) ==
    /\ pc' = "raised"
    /\ result' = [kind |-> "exception", name |-> name]

\* lines 244-254: the browser binary is looked up, the wanted list normalised
Start ==
    /\ pc = "start"
    /\ \E chromium \in BOOLEAN :
          IF ~chromium
          THEN /\ Raise("RuntimeError")
               /\ UNCHANGED <<wanted_norm, debug>>
          ELSE /\ wanted_norm' = NormWanted(wanted_colors)
               /\ debug' = Append(debug, <<"Wanted colors (normalized)", NormWanted(wanted_colors)>>)
               /\ pc' = "open"
               /\ UNCHANGED result
    /\ UNCHANGED <<wanted_colors, swatch_items, ordered_to_click, k, sess>>
    /\ UNCHANGED loopVars

\* a browser step of the login phase: the trace line is written first, then
\* the Playwright call either succeeds or raises (timeout, selector not found)
BrowserStep(here, line, next) ==
    /\ pc = here
    /\ debug' = Append(debug, <<line>>)
    /\ \E ok \in BOOLEAN :
          IF ok THEN pc' = next /\ UNCHANGED result
          ELSE Raise("TimeoutError")
    /\ UNCHANGED <<wanted_colors, sess>>
    /\ UNCHANGED selVars
    /\ UNCHANGED loopVars

\* lines 271-272
OpenProduct == BrowserStep("open", "Open product", "login_trigger")

\* _login_via_modal, lines 135-146
LoginTrigger == BrowserStep("login_trigger", "Click login trigger (popup modal)", "login_modal")
LoginWaitModal == BrowserStep("login_modal", "Wait modal body", "login_fill")
LoginFill == BrowserStep("login_fill", "Fill email/password", "login_submit")
LoginSubmit == BrowserStep("login_submit", "Submit login", "login_confirm")

\* a plausible slip: the detach wait has no try/except
LoginConfirm_uncaught ==
    /\ pc = "login_confirm"
    /\ \E detached \in BOOLEAN :
          IF detached
          THEN /\ debug' = Append(debug, <<"Modal closed after login">>)
               /\ pc' = "reload"
               /\ UNCHANGED result
          ELSE /\ Raise("TimeoutError")
               /\ UNCHANGED debug
    /\ UNCHANGED <<wanted_colors, sess>>
    /\ UNCHANGED selVars
    /\ UNCHANGED loopVars

\* lines 149-153: a timeout of the detach wait is caught
LoginConfirm ==
    /\ pc = "login_confirm"
    /\ \E detached \in BOOLEAN :
          debug' = Append(debug, IF detached
                                 THEN <<"Modal closed after login">>
                                 ELSE <<"Modal did not detach (ok if site keeps it hidden). Continue.">>)
    /\ pc' = "reload"
    /\ UNCHANGED <<wanted_colors, sess, result>>
    /\ UNCHANGED selVars
    /\ UNCHANGED loopVars

\* lines 277-279
ReloadProduct == BrowserStep("reload", "Reload product page after login", "cookies")

\* lines 282-290: the browser's cookies are copied into a requests session
BrowserCookies == {"session_id"}

\* a plausible slip: the requests session is created but the loop of lines
\* 289-290 is missing
CopyCookies_noCookies ==
    /\ pc = "cookies"
    /\ sess' = [created |-> TRUE, cookies |-> {}]
    /\ pc' = "extract"
    /\ UNCHANGED <<wanted_colors, result, debug>>
    /\ UNCHANGED selVars
    /\ UNCHANGED loopVars

CopyCookies ==
    /\ pc = "cookies"
    /\ sess' = [created |-> TRUE, cookies |-> BrowserCookies]
    /\ pc' = "extract"
    /\ UNCHANGED <<wanted_colors, result, debug>>
    /\ UNCHANGED selVars
    /\ UNCHANGED loopVars

\* line 293: the swatches of the page are read
ExtractSwatches(pages) ==
    /\ pc = "extract"
    /\ \E page \in pages :
          /\ swatch_items' = _extract_color_swatch_map(page)
          /\ debug' = Append(debug, <<"Found swatches", Len(page)>>)
    /\ pc' = "select"
    /\ UNCHANGED <<wanted_colors, wanted_norm, ordered_to_click, k, sess, result>>
    /\ UNCHANGED loopVars

\* where the for loop of line 326 goes for its n-th item
LoopAt(n, targets) == IF n <= Len(targets) THEN "click" ELSE "close"

\* lines 297-321: the click list is built, the result lists are created
SelectTargets ==
    /\ pc = "select"
    /\ ordered_to_click' = OrderedToClick(wanted_norm, swatch_items)
    /\ debug' = debug \o (IF wanted_norm # <<>> THEN MissLines(wanted_norm, swatch_items) ELSE <<>>)
                      \o <<<<"Swatches selected for clicking", Len(ordered_to_click')>>>>
    /\ found_urls' = <<>>
    /\ downloaded_ok' = <<>>
    /\ downloaded_failed' = <<>>
    /\ zf' = <<>>
    /\ k' = 1
    /\ pc' = LoopAt(1, ordered_to_click')
    /\ UNCHANGED <<wanted_colors, wanted_norm, swatch_items, sess, result,
                   main_url, cands, head_status, get_status, best, http_log>>

\* the item and the label of the current iteration, lines 327-332
It == ordered_to_click[k]
Label == LabelOf(It, k)

\* `continue`, or the end of the loop body: the for loop takes its next item
Advance ==
    /\ k' = k + 1
    /\ pc' = LoopAt(k + 1, ordered_to_click)

\* a plausible slip: a failing click is logged but not reported
ClickSwatch_onlyLogged ==
    /\ pc = "click"
    /\ \E outcome \in {NoError} \cup ClickErrors :
          IF outcome = NoError
          THEN /\ debug' = Append(debug, <<"Click swatch", k, It.title, It.data_color, It.code_text>>)
               /\ pc' = "wait"
               /\ UNCHANGED k
          ELSE /\ debug' = debug \o <<<<"Click swatch", k, It.title, It.data_color, It.code_text>>,
                                      <<"ERROR click", k, outcome>>>>
               /\ Advance
    /\ UNCHANGED <<wanted_colors, wanted_norm, swatch_items, ordered_to_click, sess, result,
                   main_url, cands, head_status, get_status, best, found_urls,
                   downloaded_ok, downloaded_failed, zf, http_log>>

\* lines 334-342: the swatch is clicked; a failing click is a per-item failure
ClickSwatch ==
    /\ pc = "click"
    /\ \E outcome \in {NoError} \cup ClickErrors :
          IF outcome = NoError
          THEN /\ debug' = Append(debug, <<"Click swatch", k, It.title, It.data_color, It.code_text>>)
               /\ pc' = "wait"
               /\ UNCHANGED <<k, downloaded_failed>>
          ELSE /\ downloaded_failed' = Append(downloaded_failed, Label \o S_click_failed \o outcome \o <<")">>)
               /\ debug' = debug \o <<<<"Click swatch", k, It.title, It.data_color, It.code_text>>,
                                      <<"ERROR click", k, outcome>>>>
               /\ Advance
    /\ UNCHANGED <<wanted_colors, wanted_norm, swatch_items, ordered_to_click, sess, result,
                   main_url, cands, head_status, get_status, best, found_urls,
                   downloaded_ok, zf, http_log>>

\* line 344 and _wait_after_color_change
WaitAfterClick ==
    /\ pc = "wait"
    /\ debug' = Append(debug, <<"Wait after click">>)
    /\ pc' = "read"
    /\ UNCHANGED <<wanted_colors, sess, result>>
    /\ UNCHANGED selVars
    /\ UNCHANGED loopVars

\* lines 347-352 and _get_main_photo_url: wait_for_selector raises when the
\* photo element does not appear within the timeout, and nothing catches it
ReadMainPhoto ==
    /\ pc = "read"
    /\ \/ /\ Raise("TimeoutError")
          /\ UNCHANGED <<k, main_url, found_urls, downloaded_failed, debug>>
       \/ \E attr \in PhotoSrcs :
             LET src == Strip(attr)
             IN  IF src = <<>>
                 THEN /\ main_url' = <<>>
                      /\ downloaded_failed' = Append(downloaded_failed, Label \o S_main_image_not_found)
                      /\ Advance
                      /\ UNCHANGED <<found_urls, debug, result>>
                 ELSE /\ main_url' = urljoin(ProductUrl, src)
                      /\ debug' = Append(debug, <<"Main photo src", main_url'>>)
                      /\ found_urls' = Append(found_urls, main_url')
                      /\ pc' = "resolve"
                      /\ UNCHANGED <<k, downloaded_failed, result>>
    /\ UNCHANGED <<wanted_colors, wanted_norm, swatch_items, ordered_to_click, sess,
                   cands, head_status, get_status, best, downloaded_ok, zf, http_log>>

\* lines 355-357: the candidates are generated and probed
ResolveBest(H, G) ==
    /\ pc = "resolve"
    /\ cands' = _best_image_url_candidates(main_url)
    /\ \E hs \in [DOMAIN cands' -> H], gs \in [DOMAIN cands' -> G] :
          /\ head_status' = hs
          /\ get_status' = gs
          /\ best' = _pick_best_existing_url(cands', hs, gs)
    /\ debug' = Append(debug, <<"Best candidate", k, best'>>)
    /\ pc' = "download"
    /\ UNCHANGED <<wanted_colors, sess, result, main_url, found_urls, downloaded_ok,
                   downloaded_failed, zf, http_log>>
    /\ UNCHANGED selVars

\* lines 359-372: the image is downloaded and written to the archive
DownloadImage ==
    /\ pc = "download"
    /\ \E resp \in DownloadAnswers :
          LET got == _download_bytes(resp)
              img_bytes == got[1]
              err == got[2]
          IN  /\ http_log' = Append(http_log, [k |-> k, url |-> best, resp |-> resp])
              /\ IF img_bytes = None \/ img_bytes = <<>>
                 THEN /\ downloaded_failed' = Append(downloaded_failed, best \o <<" ", "(">> \o err \o <<")">>)
                      /\ UNCHANGED <<zf, downloaded_ok>>
                 ELSE /\ zf' = ZipWrite(zf, FileName(k, Label, FileExt(best)), img_bytes)
                      /\ downloaded_ok' = Append(downloaded_ok, best)
                      /\ UNCHANGED downloaded_failed
    /\ head_status' = <<>>
    /\ get_status' = <<>>
    /\ Advance
    /\ UNCHANGED <<wanted_colors, wanted_norm, swatch_items, ordered_to_click, sess, result,
                   main_url, cands, best, found_urls, debug>>

\* lines 374-385: the archive is closed and the ScrapeResult returned
Finish ==
    /\ pc = "close"
    /\ result' = [kind |-> "ScrapeResult",
                  zip_bytes |-> zf,
                  found_image_urls |-> found_urls,
                  downloaded_ok |-> downloaded_ok,
                  downloaded_failed |-> downloaded_failed,
                  debug |-> debug]
    /\ pc' = "done"
    /\ UNCHANGED <<wanted_colors, sess, debug>>
    /\ UNCHANGED selVars
    /\ UNCHANGED loopVars

LoginNext ==
    \/ Start
    \/ OpenProduct
    \/ LoginTrigger
    \/ LoginWaitModal
    \/ LoginFill
    \/ LoginSubmit
    \/ LoginConfirm
    \/ ReloadProduct
    \/ CopyCookies

Next ==
    \/ LoginNext
    \/ ExtractSwatches(RunPages)
    \/ SelectTargets
    \/ ClickSwatch
    \/ WaitAfterClick
    \/ ReadMainPhoto
    \/ ResolveBest(RunHeadAnswers, RunGetAnswers)
    \/ DownloadImage
    \/ Finish

Spec == Init /\ [][Next]_vars

\* the run up to the click list, over all wanted lists and pages within the bounds
InitSelect == InitWith(SelWanted) /\ pc = "start"
NextSelect ==
    \/ LoginNext
    \/ ExtractSwatches(SelPages)
    \/ SelectTargets

SpecSelect == InitSelect /\ [][NextSelect]_vars

-----------------------------------------------------------------------------
(* _best_image_url_candidates and _pick_best_existing_url applied to every  *)
(* URL built from at most MaxPieces pieces, under every answer of the server*)

P_opt == <<"/", "o", "p", "t", "-">>
P_slash == <<"/">>
P_size == <<"1", "2", "x", "3", "-">>
P_half == <<"4", "x">>
P_dash == <<"-">>
P_name == <<"a">>
UrlPieces == {P_opt, P_slash, P_size, P_half, P_dash, P_name}

RECURSIVE Concat(_)
Concat(parts) == IF parts = <<>> THEN <<>> ELSE Head(parts) \o Concat(Tail(parts))

U_both == <<"/", "o", "p", "t", "-", "1", "x", "1", "-", "a", "/", "2", "x", "2", "-", "b">>
UrlSamples == {ProductUrl \o U_opt, ProductUrl \o U_thumb, ProductUrl \o U_plain, U_both}
UrlInputs == {Concat(parts) : parts \in SeqsUpTo(UrlPieces, MaxPieces)} \cup UrlSamples

InitUrl ==
    /\ InitWith({<<>>})
    /\ pc = "fn_input"

\* img_url is handed to _best_image_url_candidates
ApplyCandidates ==
    /\ pc = "fn_input"
    /\ \E u \in UrlInputs :
          /\ main_url' = u
          /\ cands' = _best_image_url_candidates(u)
    /\ pc' = "fn_candidates"
    /\ UNCHANGED <<wanted_colors, sess, result, debug, head_status, get_status, best,
                   found_urls, downloaded_ok, downloaded_failed, zf, http_log>>
    /\ UNCHANGED selVars

\* the candidates are handed to _pick_best_existing_url
ApplyPick ==
    /\ pc = "fn_candidates"
    /\ \E hs \in [DOMAIN cands -> HeadAnswers], gs \in [DOMAIN cands -> GetAnswers] :
          /\ head_status' = hs
          /\ get_status' = gs
          /\ best' = _pick_best_existing_url(cands, hs, gs)
    /\ pc' = "fn_picked"
    /\ UNCHANGED <<wanted_colors, sess, result, debug, main_url, cands,
                   found_urls, downloaded_ok, downloaded_failed, zf, http_log>>
    /\ UNCHANGED selVars

NextUrl ==
    \/ ApplyCandidates
    \/ ApplyPick

SpecUrl == InitUrl /\ [][NextUrl]_vars

-----------------------------------------------------------------------------
(* Lines 331-332 and 364-371 applied to every label built from at most      *)
(* MaxLabelPieces pieces and to labels around the length bound              *)

L_word == <<"R", "e", "d">>
L_accent == <<"é">>
L_space == <<" ">>
L_slash == <<"/">>
L_dot == <<".">>
L_dash == <<"-", "_">>
LabelPieces == {L_word, L_accent, L_space, L_slash, L_dot, L_dash}

\* a label of n letters
LongLabel(n) == [i \in 1..n |-> "a"]
LongLens == {MaxNameLen - 7, MaxNameLen - 6, MaxNameLen, MaxNameLen + 1}

NameLabels ==
    {Concat(parts) : parts \in SeqsUpTo(LabelPieces, MaxLabelPieces)}
        \cup {LongLabel(n) : n \in LongLens}
\* the target's position in the click list
NamePositions == {1, 10, 100}
NameUrls == {ProductUrl \o U_optStripped, ProductUrl \o U_plain, ProductUrl \o U_thumb, ProductUrl}

InitName ==
    /\ InitWith({<<>>})
    /\ pc = "name_input"

\* a swatch of that title is the k-th target and its image was fetched from best
WriteName ==
    /\ pc = "name_input"
    /\ \E t \in NameLabels, n \in NamePositions, u \in NameUrls :
          /\ swatch_items' = <<SwatchItem(Ctl(t, <<>>, <<>>), 0)>>
          /\ k' = n
          /\ best' = u
          /\ zf' = ZipWrite(zf, FileName(n, LabelOf(swatch_items'[1], n), FileExt(u)), B_imgA)
    /\ pc' = "name_written"
    /\ UNCHANGED <<wanted_colors, wanted_norm, ordered_to_click, main_url, cands,
                   head_status, get_status, found_urls, downloaded_ok,
                   downloaded_failed, http_log, sess, result, debug>>

NextName == WriteName

SpecName == InitName /\ [][NextName]_vars

-----------------------------------------------------------------------------
(* Properties *)

InLoop == pc \in {"click", "wait", "read", "resolve", "download"}
Returned == pc = "done"

\* C1: every read of the main photo that yields no URL (element absent, never
\* appearing within the timeout, or an empty src) appends the per-item failure
\* "<label> (main image not found)" and the loop goes on with the next target;
\* the run is not aborted.
C1_UnreadablePhotoIsPerItemFailure ==
    [][(pc = "read" /\ pc' # "resolve") =>
          /\ downloaded_failed' = Append(downloaded_failed, Label \o S_main_image_not_found)
          /\ k' = k + 1
          /\ pc' = LoopAt(k + 1, ordered_to_click)]_vars

\* the successful downloads among the answers logged so far, as
\* <<two-digit sequence number, body>>
RECURSIVE SuccessesOf(_)
SuccessesOf(log) ==
    IF log = <<>> THEN <<>>
    ELSE LET e == Head(log)
         IN  (IF e.resp.status = 200 /\ e.resp.content # <<>>
              THEN <<<<Dec02(e.k), e.resp.content>>>>
              ELSE <<>>) \o SuccessesOf(Tail(log))

EntriesOf(archive) == [i \in DOMAIN archive |-> <<SubSeq(archive[i].name, 1, 2), archive[i].data>>]

IsFailure(e) == e.resp.status # 200 \/ e.resp.content = <<>>

\* C2: at every point of the variant loop the archive holds, in order and
\* unchanged, exactly the entries of the downloads that succeeded so far:
\* a failing download of target k removes or alters no earlier entry, later
\* successes are still added, and the returned zip_bytes is that archive.
C2_ArchiveHoldsExactlySuccesses ==
    /\ EntriesOf(zf) = SuccessesOf(http_log)
    /\ Returned => result.zip_bytes = zf

\* a returned run in which a failed download lies between two successful ones
C2_Witness ==
    /\ Returned
    /\ Len(http_log) = 3
    /\ ~IsFailure(http_log[1])
    /\ IsFailure(http_log[2])
    /\ ~IsFailure(http_log[3])
    /\ Len(result.zip_bytes) = 2
    /\ result.zip_bytes[1].data # result.zip_bytes[2].data

\* C3: no control appears twice in the click-target list, also when two or
\* more wanted specs match the same control.
C3_NoControlTwice ==
    \A i, j \in DOMAIN ordered_to_click :
        i # j => ordered_to_click[i].index # ordered_to_click[j].index

\* candidate i passes its HEAD check, or its streamed-GET check
Passes(i) == head_status[i] = 200 \/ get_status[i] = 200

\* C4: the candidate returned is the first one, in list order, whose HEAD or
\* GET check succeeds: no later candidate is returned while an earlier one
\* would have passed.
C4_FirstPassingCandidateWins ==
    (pc = "fn_picked" /\ \E i \in DOMAIN cands : Passes(i)) =>
        \E i \in DOMAIN cands :
            /\ Passes(i)
            /\ \A j \in 1..(i - 1) : ~Passes(j)
            /\ best = cands[i]

\* C5: for a non-empty photo URL, when every HEAD and every GET probe of every
\* candidate fails (a non-success status or a network exception), the URL
\* resolved is the photo URL itself, never the empty string.
C5_ExhaustedProbingReturnsOriginal ==
    (/\ pc = "fn_picked"
     /\ main_url # <<>>
     /\ \A i \in DOMAIN cands : ~Passes(i)) =>
        (best = main_url /\ best # <<>>)

\* every probe of a rewritten URL failed, some by an exception, some by status
C5_Witness ==
    /\ pc = "fn_picked"
    /\ Len(cands) >= 2
    /\ \A i \in DOMAIN cands : ~Passes(i)
    /\ \E i \in DOMAIN cands : head_status[i] = NetworkError
    /\ \E i \in DOMAIN cands : get_status[i] = 404
    /\ best = main_url
    /\ main_url # <<>>

\* every element of q is a character: q is a plain string
IsPlainString(q) == \A i \in DOMAIN q : q[i] \in STRING

\* every selected target reached its download, and each download answered 404
AllDownloads404 ==
    /\ Len(http_log) = Len(ordered_to_click)
    /\ \A i \in DOMAIN http_log : http_log[i].resp.status = 404

\* C6: when every selected target's download answers HTTP 404, the call
\* returns normally with an archive of zero entries, an empty downloaded_ok
\* and one downloaded_failed entry per target, each a plain string that
\* contains "HTTP 404".
C6_AllDownloads404 ==
    (pc \in {"close", "done", "raised"} /\ k >= 1 /\ AllDownloads404) =>
        /\ pc # "raised"
        /\ zf = <<>>
        /\ downloaded_ok = <<>>
        /\ Len(downloaded_failed) = Len(ordered_to_click)
        /\ \A i \in DOMAIN downloaded_failed :
              /\ IsPlainString(downloaded_failed[i])
              /\ Contains(downloaded_failed[i], S_HTTP404)
        /\ Returned =>
              /\ result.kind = "ScrapeResult"
              /\ result.zip_bytes = <<>>
              /\ result.downloaded_ok = <<>>
              /\ result.downloaded_failed = downloaded_failed

\* three targets, three 404 answers, and the call has returned
C6_Witness ==
    /\ Returned
    /\ Len(ordered_to_click) = 3
    /\ AllDownloads404
    /\ Len(result.downloaded_failed) = 3
    /\ result.zip_bytes = <<>>

\* x is "/opt-WxH-" or "/WxH-": a slash, an optional "opt-", digits, "x",
\* digits, "-"
IsSizeRun(r) ==
    /\ Len(r) >= 4
    /\ r[Len(r)] = "-"
    /\ \E xp \in 2..(Len(r) - 2) :
          /\ r[xp] = "x"
          /\ \A q \in 1..(xp - 1) : IsDigit(r[q])
          /\ \A q \in (xp + 1)..(Len(r) - 1) : IsDigit(r[q])
IsInfix(x) ==
    /\ Len(x) >= 5
    /\ x[1] = "/"
    /\ \/ IsSizeRun(SubSeq(x, 2, Len(x)))
       \/ (Len(x) >= 9 /\ SubSeq(x, 2, 5) = S_opt /\ IsSizeRun(SubSeq(x, 6, Len(x))))

InfixSpans(u) == {sp \in (DOMAIN u) \X (DOMAIN u) : sp[1] < sp[2] /\ IsInfix(SubSeq(u, sp[1], sp[2]))}
HasInfix(u) == InfixSpans(u) # {}

\* u with one sizing infix removed (its leading slash stays)
OneStrips(u) == {SubSeq(u, 1, sp[1]) \o SubSeq(u, sp[2] + 1, Len(u)) : sp \in InfixSpans(u)}

\* v is u with at least one and at most n sizing infixes removed
RECURSIVE IsStrippedForm(_, _, _)
IsStrippedForm(u, v, n) ==
    /\ n > 0
    /\ \E w \in OneStrips(u) : w = v \/ IsStrippedForm(w, v, n - 1)

Slashes(u) == Cardinality({i \in DOMAIN u : u[i] = "/"})

\* C7: for a non-empty photo URL u the candidate list has no duplicates and
\* ends with u; when u holds a sizing infix the first candidate is an
\* infix-stripped form, different from u, with no more path segments than u;
\* when u holds none, the list is exactly <<u>>.
C7_CandidateList ==
    (pc \in {"fn_candidates", "fn_picked"} /\ main_url # <<>>) =>
        /\ \A i, j \in DOMAIN cands : i # j => cands[i] # cands[j]
        /\ cands # <<>>
        /\ cands[Len(cands)] = main_url
        /\ HasInfix(main_url) =>
              /\ cands[1] # main_url
              /\ IsStrippedForm(main_url, cands[1], Len(main_url))
              /\ Slashes(cands[1]) <= Slashes(main_url)
        /\ ~HasInfix(main_url) => cands = <<main_url>>

\* .../opt-490x735-rj265m.jpg gives .../rj265m.jpg first
C7_Witness ==
    /\ pc = "fn_candidates"
    /\ main_url = ProductUrl \o U_opt
    /\ HasInfix(main_url)
    /\ cands = <<ProductUrl \o U_optStripped, ProductUrl \o U_opt>>

\* the click list has been built
Selected == k >= 1

\* the caller's non-blank specs, normalised, in input order
NonBlankSpecs ==
    SelectSeq([i \in DOMAIN wanted_colors |-> _norm(wanted_colors[i])], LAMBDA w : w # <<>>)

\* control c satisfies spec w: a code equals it, or the title contains it
Satisfies(c, w) ==
    \/ _norm(c.data_color) = w
    \/ _norm(c.code_text) = w
    \/ Contains(_norm(c.title), w)

HasControl(w) == \E i \in DOMAIN swatch_items : Satisfies(swatch_items[i], w)
FirstControl(w) ==
    CHOOSE i \in DOMAIN swatch_items :
        Satisfies(swatch_items[i], w) /\ \A j \in 1..(i - 1) : ~Satisfies(swatch_items[j], w)

\* the specs that some control satisfies, in input order
MatchedSpecs == SelectSeq(NonBlankSpecs, HasControl)

\* C8: without a non-blank wanted spec the click list is every control in
\* page order; otherwise it holds, for each wanted spec in input order, the
\* first control in page order whose normalised machine code or secondary
\* code text equals the spec or whose normalised title contains it. A control
\* that satisfies no spec is never a target.
C8_ClickListFollowsInputOrder ==
    Selected =>
        /\ NonBlankSpecs = <<>> => ordered_to_click = swatch_items
        /\ NonBlankSpecs # <<>> =>
              LET specs == NonBlankSpecs
                  matched == MatchedSpecs
              IN  /\ Len(ordered_to_click) = Len(matched)
                  /\ \A n \in DOMAIN ordered_to_click :
                        ordered_to_click[n] = swatch_items[FirstControl(matched[n])]
                  /\ \A n \in DOMAIN ordered_to_click :
                        \E i \in DOMAIN specs : Satisfies(ordered_to_click[n], specs[i])

\* two specs chose two controls against page order, each spec having a later
\* control that satisfies it too or a control that no spec selects
C8_Witness ==
    /\ Selected
    /\ Len(NonBlankSpecs) = 2
    /\ Len(ordered_to_click) = 2
    /\ ordered_to_click[1].index > ordered_to_click[2].index
    /\ \E i \in DOMAIN swatch_items :
          /\ swatch_items[i].index > ordered_to_click[2].index
          /\ Satisfies(swatch_items[i], NonBlankSpecs[2])

\* every spec of the select-all case: all controls are targets
C8_WitnessAll ==
    /\ Selected
    /\ wanted_colors # <<>>
    /\ NonBlankSpecs = <<>>
    /\ Len(ordered_to_click) = 2

Unmatched(w) == ~HasControl(w)
MissLine(w) == <<"WARNING: no swatch matched", w>>
HasLine(trace, line) == \E i \in DOMAIN trace : trace[i] = line

\* C9 as claimed: every wanted spec that matches no control has, once the run
\* returned, an entry in downloaded_failed naming it and a trace line naming it.
C9_MissIsInFailedList ==
    Returned =>
        \A i \in DOMAIN wanted_norm :
            Unmatched(wanted_norm[i]) =>
                /\ \E j \in DOMAIN result.downloaded_failed :
                      Contains(result.downloaded_failed[j], wanted_norm[i])
                /\ HasLine(result.debug, MissLine(wanted_norm[i]))

\* C9 as amended: every wanted spec that matches no control is recorded by a
\* trace line naming it and by nothing in downloaded_failed (which holds at
\* most one entry per target already processed); the spec is skipped and every
\* other spec still gets its target, so the run goes on into the variant loop.
C9_MissIsTracedOnly ==
    Selected =>
        /\ \A i \in DOMAIN wanted_norm :
              Unmatched(wanted_norm[i]) => HasLine(debug, MissLine(wanted_norm[i]))
        /\ \A i \in DOMAIN wanted_norm :
              HasControl(wanted_norm[i]) =>
                  \E n \in DOMAIN ordered_to_click :
                      ordered_to_click[n] = swatch_items[FirstControl(wanted_norm[i])]
        /\ wanted_norm # <<>> =>
              Len(ordered_to_click) =
                  Cardinality({i \in DOMAIN wanted_norm : HasControl(wanted_norm[i])})
        /\ Len(downloaded_failed) <= k - 1
        /\ pc \in {"click", "close"} /\ k = 1 => downloaded_failed = <<>>

\* a run returned its result although the first spec matched nothing; the
\* second spec was processed and downloaded, and nothing is in the failed list
C9_Witness ==
    /\ Returned
    /\ Len(wanted_norm) = 2
    /\ Unmatched(wanted_norm[1])
    /\ HasControl(wanted_norm[2])
    /\ result.downloaded_failed = <<>>
    /\ Len(result.downloaded_ok) = 1
    /\ HasLine(result.debug, MissLine(wanted_norm[1]))

\* the label by the claimed precedence: machine code, secondary code text,
\* display title, synthetic placeholder
ClaimedLabel(it, n) ==
    IF it.data_color # <<>> THEN it.data_color
    ELSE IF it.code_text # <<>> THEN it.code_text
    ELSE IF it.title # <<>> THEN it.title
    ELSE S_color \o Dec(n)

\* C10: the label of a target's report entries is its machine code when that
\* is non-empty, else the secondary code text, else the title, else color_N:
\* the entry a failing click appends starts with that label.
C10_LabelPrefersMachineCode ==
    [][(pc = "click" /\ pc' # "wait") =>
          \E e \in ClickErrors :
              downloaded_failed' =
                  Append(downloaded_failed, ClaimedLabel(It, k) \o S_click_failed \o e \o <<")">>)]_vars

-----------------------------------------------------------------------------
(* The extension of an archive entry *)

EndsWith(s, p) == Len(s) >= Len(p) /\ SubSeq(s, Len(s) - Len(p) + 1, Len(s)) = p

\* the logged answers of the downloads that succeeded, in order
SuccessLog == SelectSeq(http_log, LAMBDA e : ~IsFailure(e))

\* the extension by the claimed precedence: the declared content type when
\* present, else the extension of the URL, else the default
ClaimedExt(ctype, url) ==
    IF ctype = CT_png THEN <<".">> \o E_png
    ELSE FileExt(url)

\* C11: the extension of an archive entry follows the content type the
\* response declared when there is one, else the extension of the URL, else
\* the default: an image/png response fetched from a URL ending in .jpg is
\* stored under a .png name.
C11_ExtensionFollowsContentType ==
    \A i \in DOMAIN zf :
        i <= Len(SuccessLog) =>
            EndsWith(zf[i].name, ClaimedExt(SuccessLog[i].resp.content_type, SuccessLog[i].url))

-----------------------------------------------------------------------------
(* The name of an archive entry *)

\* the characters [A-Za-z0-9_.-]
IsAsciiNameChar(c) ==
    \/ IsUpper(c)
    \/ c \in LowerSet
    \/ IsDigit(c)
    \/ c \in {"_", ".", "-"}

Named == pc = "name_written"

\* C12: for every label, also one with non-ASCII letters and one at the
\* length bound, the entry name starts with the two-digit sequence number and
\* "_", ends with the inferred extension, and holds only characters of
\* [A-Za-z0-9_.-].
C12_NameKeepsPrefixExtAndAscii ==
    Named =>
        LET name == zf[1].name
        IN  /\ StartsWith(name, Dec02(k) \o <<"_">>)
            /\ EndsWith(name, FileExt(best))
            /\ \A c \in Range(name) : IsAsciiNameChar(c)

-----------------------------------------------------------------------------
(* A click that leaves the main photo unchanged *)

\* the warning lines of the trace (line 315 writes the only ones)
WarningTemplates == {"WARNING: no swatch matched"}
IsWarning(line) == line[1] \in WarningTemplates
Warnings(trace) == SelectSeq(trace, IsWarning)

\* the previous target was read too, and gave the source found_urls ends with
PreviousWasRead ==
    /\ http_log # <<>>
    /\ http_log[Len(http_log)].k = k - 1
    /\ found_urls # <<>>

\* C13: when the click on target k succeeded and the main photo still has the
\* source read for target k-1, the source is appended to found_image_urls and
\* goes on to the probe (no entry is added to downloaded_failed), and the
\* trace gains a warning line about the unchanged source.
C13_UnchangedSourceIsEmittedWithWarning ==
    [][(/\ pc = "read"
        /\ pc' = "resolve"
        /\ PreviousWasRead
        /\ main_url' = found_urls[Len(found_urls)])
       => /\ found_urls' = Append(found_urls, main_url')
          /\ downloaded_failed' = downloaded_failed
          /\ Len(Warnings(debug')) > Len(Warnings(debug))]_vars

\* the same step without the warning: the observation is emitted
C13_UnchangedSourceIsEmitted ==
    [][(/\ pc = "read"
        /\ pc' = "resolve"
        /\ PreviousWasRead
        /\ main_url' = found_urls[Len(found_urls)])
       => /\ found_urls' = Append(found_urls, main_url')
          /\ downloaded_failed' = downloaded_failed]_vars

-----------------------------------------------------------------------------
(* Colour families *)

S_blu_notte == <<"b", "l", "u", " ", "n", "o", "t", "t", "e">>
S_midnight == <<"m", "i", "d", "n", "i", "g", "h", "t">>
S_marine == <<"m", "a", "r", "i", "n", "e">>
S_dark_blue == <<"d", "a", "r", "k", " ", "b", "l", "u", "e">>

\* the synonyms registered for a family (the "blu navy" entry of the table
\* of _wanted_color_match in scraper.py; iw_scraper.py has no such table)
synonyms(w) ==
    IF w = W_blu_navy
    THEN {W_navy, W_blu_navy, S_blu_notte, S_midnight, S_marine, S_dark_blue}
    ELSE {}

\* control c is what spec w asks for, by the claimed rule: a code equals w,
\* or the title contains w or a synonym of the family w names
ClaimedSatisfies(c, w) ==
    \/ Satisfies(c, w)
    \/ \E syn \in synonyms(w) : Contains(_norm(c.title), syn)

\* C14: a wanted spec that names a colour family selects a control whose
\* normalised title contains a synonym of that family ("blu navy" selects
\* "French Navy"), also when the spec is no substring of the title and equals
\* neither code; a control whose title contains neither the spec nor a
\* synonym and whose codes differ from every spec is not selected.
C14_FamilySynonymSelects ==
    (Selected /\ NonBlankSpecs # <<>>) =>
        LET specs == Range(NonBlankSpecs)
        IN  /\ \A w \in specs :
                  (\E i \in DOMAIN swatch_items : ClaimedSatisfies(swatch_items[i], w))
                      => \E j \in DOMAIN ordered_to_click : ClaimedSatisfies(ordered_to_click[j], w)
            /\ \A j \in DOMAIN ordered_to_click :
                  \E w \in specs : ClaimedSatisfies(ordered_to_click[j], w)

\* the second half alone: only controls a spec asks for are targets
C14_OnlyAskedControlsAreTargets ==
    (Selected /\ NonBlankSpecs # <<>>) =>
        \A j \in DOMAIN ordered_to_click :
            \E w \in Range(NonBlankSpecs) : Satisfies(ordered_to_click[j], w)

-----------------------------------------------------------------------------
(* The login flow *)

LoginLines ==
    <<"Click login trigger (popup modal)", "Wait modal body", "Fill email/password", "Submit login">>
LoginPcs == <<"login_trigger", "login_modal", "login_fill", "login_submit">>
DetachedLine == <<"Modal closed after login">>
UnconfirmedLine == <<"Modal did not detach (ok if site keeps it hidden). Continue.">>

LinesAt(line) == {i \in DOMAIN debug : debug[i] = line}
\* _login_via_modal has reached its end
LoginDone == LinesAt(DetachedLine) # {} \/ LinesAt(UnconfirmedLine) # {}
Clicked == \E i \in DOMAIN debug : debug[i][1] = "Click swatch"

\* the four steps have run, once each and in order, before the confirmation
LoginStepsInOrder ==
    /\ \A n \in 1..4 : Cardinality(LinesAt(<<LoginLines[n]>>)) = 1
    /\ \A n \in 1..3 :
          \A i \in LinesAt(<<LoginLines[n]>>), j \in LinesAt(<<LoginLines[n + 1]>>) : i < j
    /\ \A i \in LinesAt(<<LoginLines[4]>>), j \in LinesAt(DetachedLine) \cup LinesAt(UnconfirmedLine) : i < j

\* a step of the login either reaches the next step or raises
LoginStepOrAbort ==
    \A n \in 1..4 :
        pc = LoginPcs[n] =>
            \/ pc' = (IF n < 4 THEN LoginPcs[n + 1] ELSE "login_confirm") /\ result' = result
            \/ pc' = "raised" /\ result'.kind = "exception"

\* the confirmation never raises, and writes one of its two lines
ConfirmNeverAborts ==
    pc = "login_confirm" =>
        /\ pc' = "reload"
        /\ result' = result
        /\ \/ debug' = Append(debug, DetachedLine)
           \/ debug' = Append(debug, UnconfirmedLine)

\* C15: the session is established only after trigger, modal wait, fill and
\* submit have run in that order; a timeout in one of the four leaves the
\* function with an exception, no swatch clicked and no ScrapeResult; a
\* timeout of the detach confirmation alone aborts nothing, and the trace
\* then holds the unconfirmed line, which is not the detach line.
C15_LoginOrderAndAbort ==
    /\ []((sess.created \/ Selected \/ Clicked) => LoginDone)
    /\ [](LoginDone => LoginStepsInOrder)
    /\ []((pc = "raised" /\ ~LoginDone) =>
              /\ result.kind = "exception"
              /\ ~Clicked
              /\ ~sess.created
              /\ ordered_to_click = <<>>)
    /\ [](LinesAt(DetachedLine) = {} \/ LinesAt(UnconfirmedLine) = {})
    /\ [][LoginStepOrAbort /\ ConfirmNeverAborts /\ pc # "raised"]_vars

\* a run whose detach confirmation timed out and which still returned an image
C15_Witness ==
    /\ Returned
    /\ LinesAt(UnconfirmedLine) # {}
    /\ LinesAt(DetachedLine) = {}
    /\ Len(result.downloaded_ok) >= 1

-----------------------------------------------------------------------------
(* The order of the events of a run *)

ReloadLine == <<"Reload product page after login">>
CookiesCopied == sess.created /\ sess.cookies = BrowserCookies
ClickPositions == {i \in DOMAIN debug : debug[i][1] = "Click swatch"}

\* the trace holds confirmation, reload and clicks in that order, and the
\* clicks in the order of their targets
EventsInTraceOrder ==
    /\ \A c \in LinesAt(DetachedLine) \cup LinesAt(UnconfirmedLine), r \in LinesAt(ReloadLine) : c < r
    /\ \A r \in LinesAt(ReloadLine), i \in ClickPositions : r < i
    /\ \A i, j \in ClickPositions : i < j => debug[i][2] < debug[j][2]

\* target k is settled: it has its entry in one of the two report lists
SettledTargets == Len(downloaded_ok) + Len(downloaded_failed)

\* one target at a time: click, wait, read, probe, download, and only the end
\* of one of them (or its abandonment) leads to the next target
OneTargetAtATime ==
    /\ pc = "click" =>
          /\ SettledTargets = k - 1
          /\ \/ pc' = "wait" /\ k' = k
             \/ pc' = LoopAt(k + 1, ordered_to_click) /\ k' = k + 1 /\ SettledTargets' = k
    /\ pc = "wait" => pc' = "read" /\ k' = k
    /\ pc = "read" =>
          \/ pc' = "resolve" /\ k' = k
          \/ pc' = LoopAt(k + 1, ordered_to_click) /\ k' = k + 1 /\ SettledTargets' = k
          \/ pc' = "raised"
    /\ pc = "resolve" => pc' = "download" /\ k' = k
    /\ pc = "download" =>
          pc' = LoopAt(k + 1, ordered_to_click) /\ k' = k + 1 /\ SettledTargets' = k

\* a probe or a download happens in this step
HttpStep == pc \in {"resolve", "download"} \/ http_log' # http_log \/ head_status' # head_status

\* C16: the login completes, then the product page is reloaded, then the
\* cookies are copied into the HTTP session, and only then is the first
\* swatch clicked; target k is clicked, waited for and read (or abandoned)
\* before target k+1 is clicked; no probe and no download happens before the
\* cookies are copied.
C16_EventsAreOrdered ==
    /\ [](LinesAt(ReloadLine) # {} => LoginDone)
    /\ [](sess.created => (CookiesCopied /\ LinesAt(ReloadLine) # {}))
    /\ []((Selected \/ Clicked \/ InLoop \/ http_log # <<>>) => CookiesCopied)
    /\ []EventsInTraceOrder
    /\ [][OneTargetAtATime /\ (HttpStep => CookiesCopied)]_vars

\* a returned run that clicked two targets and downloaded for both
C16_Witness ==
    /\ Returned
    /\ Cardinality(ClickPositions) = 2
    /\ Len(http_log) = 2
    /\ http_log[1].k = 1
    /\ http_log[2].k = 2

-----------------------------------------------------------------------------
(* The counts of a returned ScrapeResult *)

IsPrefix(a, b) == Len(a) <= Len(b) /\ SubSeq(b, 1, Len(a)) = a

\* the targets whose download failed
DownloadFailures == Cardinality({i \in DOMAIN http_log : IsFailure(http_log[i])})

\* C17: a returned ScrapeResult has one entry in downloaded_ok or
\* downloaded_failed for every click target, as many archive entries as
\* downloaded_ok has URLs, and as many found_image_urls as downloaded_ok has
\* URLs plus the targets that failed at the download; the debug trace only
\* grows, every earlier trace being a prefix of every later one.
C17_ResultCounts ==
    /\ [](Returned =>
              /\ result.kind = "ScrapeResult"
              /\ Len(result.downloaded_ok) + Len(result.downloaded_failed) = Len(ordered_to_click)
              /\ Len(result.zip_bytes) = Len(result.downloaded_ok)
              /\ Len(result.found_image_urls) = Len(result.downloaded_ok) + DownloadFailures
              /\ result.debug = debug)
    /\ [][IsPrefix(debug, debug')]_vars

\* a returned run of three targets: one downloaded, one failed at the
\* download, one failed before it
C17_Witness ==
    /\ Returned
    /\ Len(ordered_to_click) = 3
    /\ Len(result.downloaded_ok) = 1
    /\ DownloadFailures = 1
    /\ Len(result.downloaded_failed) = 2
    /\ Len(result.debug) > Len(ordered_to_click)

====
